---- MODULE Spec2Model ----
(***************************************************************************)
(* nereid-image-transformation: the transformation command chain           *)
(* (TransformationCommand), its textual grammar (parse_command), the       *)
(* operation dispatch and the on-disk rendition cache of                   *)
(* NereidStaticFile.transform_static_file.                                 *)
(*                                                                         *)
(* Text is modelled as a sequence of one-character strings, so that        *)
(* split, join, unquote, secure_filename, '%s' formatting and int() are    *)
(* computed character by character as the Python code computes them.       *)
(***************************************************************************)
EXTENDS Integers, Sequences, FiniteSets, TLC

VARIABLES
    commands,    \* TransformationCommand.commands: the list of segments
    appended,    \* history: the builder calls made on the chain, in order
    returned,    \* what the last builder call returned ("none" before any)
    now,         \* wall clock shared by the database and the filesystem
    file_binary, \* the master image's content, as a version number
    write_date,  \* the master's last-modified time, None when never written
    files,       \* the cache directory: filename -> None or [mtime, content]
    req          \* per request: position in transform_static_file and locals

vars == <<commands, appended, returned, now, file_binary, write_date, files, req>>

chainVars == <<commands, appended, returned>>
cacheVars == <<now, file_binary, write_date, files, req>>

\* Python's None for write_date and False for file_date: both are falsy, and
\* every real time is at least 1
None == 0

(***************************************************************************)
(* Bounds                                                                  *)
(***************************************************************************)
MaxChain == 2      \* builder calls made on one chain
MaxTime == 3       \* clock values 1..MaxTime
MaxVersion == 2    \* master contents 1..MaxVersion

(***************************************************************************)
(* Text primitives                                                         *)
(***************************************************************************)
Digits == <<"0", "1", "2", "3", "4", "5", "6", "7", "8", "9">>

DigitChars == {Digits[i] : i \in 1..10}

DigitVal(c) == (CHOOSE i \in 1..10 : Digits[i] = c) - 1

RECURSIVE Join(_, _)
\* sep.join(ss)
Join(ss, sep) ==
    IF ss = <<>> THEN <<>>
    ELSE IF Len(ss) = 1 THEN ss[1]
    ELSE ss[1] \o sep \o Join(Tail(ss), sep)

RECURSIVE SplitFrom(_, _, _, _)
\* s.split(sep) for a one-character sep, with at most maxsplit splits
\* (maxsplit = -1: no limit); cur is the piece being accumulated
SplitFrom(s, sep, maxsplit, cur) ==
    IF s = <<>> THEN <<cur>>
    ELSE IF Head(s) = sep /\ maxsplit # 0
         THEN <<cur>> \o SplitFrom(Tail(s), sep, maxsplit - 1, <<>>)
         ELSE SplitFrom(Tail(s), sep, maxsplit, Append(cur, Head(s)))

Split(s, sep) == SplitFrom(s, sep, -1, <<>>)

SplitMax(s, sep, maxsplit) == SplitFrom(s, sep, maxsplit, <<>>)

RECURSIVE NatToStr(_)
NatToStr(n) ==
    IF n < 10 THEN <<Digits[n + 1]>>
    ELSE Append(NatToStr(n \div 10), Digits[(n % 10) + 1])

\* '%s' % n for an integer n
ToStr(n) == IF n < 0 THEN <<"-">> \o NatToStr(-n) ELSE NatToStr(n)

RECURSIVE DigitsToNat(_, _)
DigitsToNat(s, acc) ==
    IF s = <<>> THEN acc ELSE DigitsToNat(Tail(s), acc * 10 + DigitVal(Head(s)))

IsDigits(s) == s # <<>> /\ \A i \in 1..Len(s) : s[i] \in DigitChars

\* int(s) accepts an optional sign followed by decimal digits
IsInt(s) ==
    IF s # <<>> /\ Head(s) \in {"-", "+"} THEN IsDigits(Tail(s)) ELSE IsDigits(s)

\* int(s), for IsInt(s)
ToInt(s) ==
    IF Head(s) = "-" THEN 0 - DigitsToNat(Tail(s), 0)
    ELSE IF Head(s) = "+" THEN DigitsToNat(Tail(s), 0)
    ELSE DigitsToNat(s, 0)

(***************************************************************************)
(* TransformationCommand: the chain builder and its serialization          *)
(***************************************************************************)
thumbnailName == <<"t", "h", "u", "m", "b", "n", "a", "i", "l">>
resizeName == <<"r", "e", "s", "i", "z", "e">>
fitName == <<"f", "i", "t">>

\* mode='n' in the signatures of thumbnail, resize and fit
DefaultMode == <<"n">>

\* the segment without its mode argument
ArgumentsNoMode(name, width, height, mode) ==
    Join(<<name, <<"w", "_">> \o ToStr(width), <<"h", "_">> \o ToStr(height)>>,
         <<",">>)

\* the body shared by thumbnail, resize and fit: the segment they append
Arguments(name, width, height, mode) ==
    Join(<<name, <<"w", "_">> \o ToStr(width), <<"h", "_">> \o ToStr(height)>>
         \o (IF mode # <<>> THEN <<(<<"m", "_">> \o mode)>> ELSE <<>>),
         <<",">>)

\* TransformationCommand.__str__
Str(cmds) == Join(cmds, <<"/">>)

(***************************************************************************)
(* The builder calls the chain specification makes                         *)
(***************************************************************************)
Sizes == {<<1, 100>>, <<100, 100>>, <<128, 128>>}

\* NotGiven: the call leaves mode out and the default applies
NotGiven == <<"NotGiven">>

ModeArgs == {NotGiven, <<"n">>, <<"b">>, <<"c">>, <<"a">>, <<>>}

EffectiveMode(m) == IF m = NotGiven THEN DefaultMode ELSE m

Build(name, width, height, m) ==
    /\ Len(appended) < MaxChain
    /\ commands' = Append(commands, Arguments(name, width, height, EffectiveMode(m)))
    /\ appended' = Append(appended, [kind |-> name, width |-> width,
                                     height |-> height, mode |-> m])
    /\ returned' = "self"
    /\ UNCHANGED cacheVars

thumbnail == \E sz \in Sizes, m \in ModeArgs : Build(thumbnailName, sz[1], sz[2], m)

resize == \E sz \in Sizes, m \in ModeArgs : Build(resizeName, sz[1], sz[2], m)

fit == \E sz \in Sizes, m \in ModeArgs : Build(fitName, sz[1], sz[2], m)

(***************************************************************************)
(* parse_command                                                           *)
(***************************************************************************)
\* the percent escapes of the characters of the command grammar
Escapes == { [hex |-> <<"2", "C">>, char |-> ","],
             [hex |-> <<"2", "F">>, char |-> "/"],
             [hex |-> <<"5", "F">>, char |-> "_"] }

RECURSIVE unquote(_)
\* urllib2.unquote: %XX becomes the character it encodes, anything else stays
unquote(s) ==
    IF s = <<>> THEN <<>>
    ELSE IF Head(s) = "%" /\ Len(s) >= 3
                /\ \E e \in Escapes : e.hex = SubSeq(s, 2, 3)
         THEN <<(CHOOSE e \in Escapes : e.hex = SubSeq(s, 2, 3)).char>>
                  \o unquote(SubSeq(s, 4, Len(s)))
         ELSE <<Head(s)>> \o unquote(Tail(s))

RECURSIVE Dict(_)
\* dict(pairs) for a list of two-element lists: later keys win
Dict(pairs) ==
    IF pairs = <<>> THEN <<>>
    ELSE LET rest == Dict(SubSeq(pairs, 1, Len(pairs) - 1))
             last == pairs[Len(pairs)]
         IN [k \in DOMAIN rest \cup {last[1]} |->
                IF k = last[1] THEN last[2] ELSE rest[k]]

\* parse_command splitting on every comma
parse_commandSplitAll(command) ==
    LET parts == Split(unquote(command), ",")
    IN IF Len(parts) # 2 THEN [status |-> "404"]
       ELSE LET args == Split(parts[2], ",")
                pairs == [i \in 1..Len(args) |-> Split(args[i], "_")]
            IN IF \E i \in 1..Len(pairs) : Len(pairs[i]) # 2
               THEN [status |-> "500"]
               ELSE [status |-> "ok", operation |-> parts[1], params |-> Dict(pairs)]

\* parse_command: (operation, params), abort(404) when the segment has no
\* comma, ValueError out of dict() when an argument does not split on '_'
\* into exactly two parts
parse_command(command) ==
    LET parts == SplitMax(unquote(command), ",", 1)
    IN IF Len(parts) # 2 THEN [status |-> "404"]
       ELSE LET args == Split(parts[2], ",")
                pairs == [i \in 1..Len(args) |-> Split(args[i], "_")]
            IN IF \E i \in 1..Len(pairs) : Len(pairs[i]) # 2
               THEN [status |-> "500"]
               ELSE [status |-> "ok", operation |-> parts[1], params |-> Dict(pairs)]

(***************************************************************************)
(* NereidStaticFile: the operations and their dispatch                     *)
(***************************************************************************)
FILTER_MAP ==
    [m \in {<<>>, <<"n">>, <<"b">>, <<"c">>, <<"a">>} |->
        CASE m = <<"b">> -> "BILINEAR"
          [] m = <<"c">> -> "BICUBIC"
          [] m = <<"a">> -> "ANTIALIAS"
          [] OTHER -> "NEAREST"]

allowed_operations == {resizeName, thumbnailName, fitName}

\* the keyword parameters of thumbnail, resize and fit
Keywords == {<<"w">>, <<"h">>, <<"m">>}

\* w=128, h=128 in the signatures of thumbnail, resize and fit
DefaultSize == 128

\* an image: the master content it was decoded from and the operations applied
Decoded(version) == [version |-> version, ops |-> <<>>]

\* getattr(self, operation)(image_file, **params) for an allowed operation:
\* the set of possible outcomes. TypeError on an unexpected keyword,
\* ValueError from int(), KeyError from FILTER_MAP[m] are unhandled ("500");
\* on a size that is not positive the imaging library either raises or
\* produces an image, the code does not check.
Operation(operation, image, params) ==
    IF ~(DOMAIN params \subseteq Keywords) THEN {[status |-> "500"]}
    ELSE LET wOk == <<"w">> \notin DOMAIN params \/ IsInt(params[<<"w">>])
             hOk == <<"h">> \notin DOMAIN params \/ IsInt(params[<<"h">>])
             m == IF <<"m">> \in DOMAIN params THEN params[<<"m">>] ELSE DefaultMode
         IN IF ~wOk \/ ~hOk \/ m \notin DOMAIN FILTER_MAP THEN {[status |-> "500"]}
            ELSE LET w == IF <<"w">> \in DOMAIN params
                          THEN ToInt(params[<<"w">>]) ELSE DefaultSize
                     h == IF <<"h">> \in DOMAIN params
                          THEN ToInt(params[<<"h">>]) ELSE DefaultSize
                     done == [status |-> "ok",
                              image |-> [image EXCEPT !.ops =
                                  Append(@, [op |-> operation, w |-> w, h |-> h,
                                             filter |-> FILTER_MAP[m]])]]
                 IN IF w > 0 /\ h > 0 THEN {done} ELSE {done, [status |-> "500"]}

\* one turn of the loop of _transform_static_file on one segment
Command(image, command) ==
    LET p == parse_command(command)
    IN IF p.status # "ok" THEN {[status |-> p.status]}
       ELSE IF p.operation \notin allowed_operations THEN {[status |-> "404"]}
       ELSE Operation(p.operation, image, p.params)

(***************************************************************************)
(* The rendition cache                                                     *)
(***************************************************************************)
SafeChars ==
    { "a", "b", "c", "d", "e", "f", "g", "h", "i", "j", "k", "l", "m",
      "n", "o", "p", "q", "r", "s", "t", "u", "v", "w", "x", "y", "z",
      "A", "B", "C", "D", "E", "F", "G", "H", "I", "J", "K", "L", "M",
      "N", "O", "P", "Q", "R", "S", "T", "U", "V", "W", "X", "Y", "Z",
      "0", "1", "2", "3", "4", "5", "6", "7", "8", "9", "_", ".", "-" }

RECURSIVE StripLeft(_, _)
StripLeft(s, chars) ==
    IF s # <<>> /\ Head(s) \in chars THEN StripLeft(Tail(s), chars) ELSE s

RECURSIVE StripRight(_, _)
StripRight(s, chars) ==
    IF s # <<>> /\ s[Len(s)] \in chars
    THEN StripRight(SubSeq(s, 1, Len(s) - 1), chars) ELSE s

\* werkzeug.utils.secure_filename on ASCII text: the path separator becomes
\* white space, runs of white space become one '_', every character outside
\* [A-Za-z0-9_.-] is removed, and '.' and '_' are stripped from both ends
secure_filename(s) ==
    LET words == SelectSeq(Split(s, "/"), LAMBDA w : w # <<>>)
        joined == Join(words, <<"_">>)
        kept == SelectSeq(joined, LAMBDA c : c \in SafeChars)
    IN StripRight(StripLeft(kept, {".", "_"}), {".", "_"})

\* '%s.%s' % (secure_filename(commands), extension), inside the one folder of
\* this database and this record
Filename(cmds, extension) == secure_filename(cmds) \o <<".">> \o extension

\* the file a save has opened for writing and not yet written
Truncated == [complete |-> FALSE, version |-> 0, ops |-> <<>>, commands |-> <<>>]

\* the encoded image of a finished save
Encoded(image, cmds) ==
    [complete |-> TRUE, version |-> image.version, ops |-> image.ops, commands |-> cmds]

\* a write that leaves the modification time at the first clock value
WrittenUndated(content) == [mtime |-> 1, content |-> content]

\* a file as the filesystem keeps it once written at the current time
Written(content) == [mtime |-> now, content |-> content]

Put(name, file) ==
    [f \in DOMAIN files \cup {name} |-> IF f = name THEN file ELSE files[f]]

\* os.path.exists(filename) and the file's modification time
FileDate(name) == IF name \in DOMAIN files THEN files[name].mtime ELSE None

\* the condition with <= for <
MustTransformNonStrict(file_date, wdate) ==
    file_date = None \/ (wdate # None /\ file_date <= wdate)

\* the condition taking an absent write_date as stale
MustTransformAbsentStale(file_date, wdate) ==
    file_date = None \/ wdate = None \/ file_date < wdate

\* the condition of transform_static_file under which it renders
MustTransform(file_date, wdate) ==
    file_date = None \/ (wdate # None /\ file_date < wdate)

Reqs == {"r1", "r2"}

png == <<"p", "n", "g">>

Extensions == {png}

Idle ==
    [pc |-> "idle", commands |-> <<>>, filename |-> <<>>, file_date |-> None,
     wdate |-> None, gate |-> "none", decoded |-> FALSE, invoked |-> {},
     image |-> Decoded(0), segs |-> <<>>, wrote |-> FALSE,
     status |-> "none", body |-> Truncated]

(***************************************************************************)
(* The command texts requests arrive with                                  *)
(***************************************************************************)
\* "fit,w_1,h_1"
FitText == <<"f", "i", "t", ",", "w", "_", "1", ",", "h", "_", "1">>

\* "fitw_1,h_1": sanitizes to the same filename as FitText, names no operation
FitNoComma == <<"f", "i", "t", "w", "_", "1", ",", "h", "_", "1">>

\* "fit%2Cw_1,h_1": FitText with its first comma percent-escaped
FitEscaped == <<"f", "i", "t", "%", "2", "C", "w", "_", "1", ",", "h", "_", "1">>

\* "thumbnail,w_2,h_2/resize,w_1,h_1,m_a"
TwoText == Arguments(thumbnailName, 2, 2, <<>>) \o <<"/">>
               \o Arguments(resizeName, 1, 1, <<"a">>)

\* "rotate,w_1,h_1": well formed, unknown operation
RotateText == <<"r", "o", "t", "a", "t", "e", ",", "w", "_", "1", ",", "h", "_", "1">>

\* "rotate,w1": unknown operation, parameter without underscore
RotateBad == <<"r", "o", "t", "a", "t", "e", ",", "w", "1">>

\* "fit": a segment with no comma
NoComma == fitName

\* "fit,w1": parameter without underscore
NoUnderscore == <<"f", "i", "t", ",", "w", "1">>

\* "fit,x_1": unknown parameter key
BadKey == <<"f", "i", "t", ",", "x", "_", "1">>

\* "fit,w_a,h_1": width not an integer
BadWidth == <<"f", "i", "t", ",", "w", "_", "a", ",", "h", "_", "1">>

\* "fit,w_0,h_1": width not positive
ZeroWidth == <<"f", "i", "t", ",", "w", "_", "0", ",", "h", "_", "1">>

\* "fit,w_1,h_1,m_l": the filter code the docstrings give for BILINEAR
BadFilter == FitText \o <<",", "m", "_", "l">>

\* "fit,w_a,h_1/fit": a failing segment before a segment with no comma
BadThenNoComma == BadWidth \o <<"/">> \o NoComma

\* the texts of the concurrent requests: a valid chain and a text that
\* sanitizes to the same filename
CacheTexts == {FitText, FitNoComma}

\* the texts of the single request of the rendering specification
AllTexts ==
    {FitText, FitNoComma, TwoText, <<>>, FitEscaped, RotateText, RotateBad,
     NoComma, NoUnderscore, BadKey, BadWidth, ZeroWidth, BadFilter,
     BadThenNoComma}

(***************************************************************************)
(* transform_static_file, one action per step other requests can interleave*)
(***************************************************************************)
\* lines 266-284: the cache path, and the file's date if it exists
Arrive(r, texts) ==
    \E c \in texts, e \in Extensions :
        /\ req[r].pc = "idle"
        /\ req' = [req EXCEPT ![r] =
               [Idle EXCEPT !.pc = "gate", !.commands = c,
                            !.filename = Filename(c, e),
                            !.file_date = FileDate(Filename(c, e))]]
        /\ UNCHANGED <<now, file_binary, write_date, files, chainVars>>

Request(r) == Arrive(r, CacheTexts)

RequestAny(r) == Arrive(r, AllTexts)

\* lines 286-289: render, or go straight to send_file
Gate(r) ==
    /\ req[r].pc = "gate"
    /\ req' = [req EXCEPT ![r].wdate = write_date,
                          ![r].gate = IF MustTransform(req[r].file_date, write_date)
                                      THEN "render" ELSE "serve",
                          ![r].pc = IF MustTransform(req[r].file_date, write_date)
                                    THEN "open" ELSE "send"]
    /\ UNCHANGED <<now, file_binary, write_date, files, chainVars>>

\* line 246: Image.open of the master's bytes; line 250: commands.split('/')
ImageOpen(r) ==
    /\ req[r].pc = "open"
    /\ req' = [req EXCEPT ![r].image = Decoded(file_binary),
                          ![r].decoded = TRUE,
                          ![r].segs = Split(req[r].commands, "/"),
                          ![r].pc = "loop"]
    /\ UNCHANGED <<now, file_binary, write_date, files, chainVars>>

\* lines 250-254: one segment of the chain
Loop(r) ==
    /\ req[r].pc = "loop"
    /\ req[r].segs # <<>>
    /\ \E out \in Command(req[r].image, Head(req[r].segs)) :
          LET p == parse_command(Head(req[r].segs))
              called == IF p.status = "ok" /\ p.operation \in allowed_operations
                        THEN {p.operation} ELSE {}
          IN req' = [req EXCEPT
                 ![r].invoked = @ \cup called,
                 ![r].image = IF out.status = "ok" THEN out.image ELSE @,
                 ![r].segs = IF out.status = "ok" THEN Tail(@) ELSE @,
                 ![r].status = IF out.status = "ok" THEN @ ELSE out.status,
                 ![r].pc = IF out.status = "ok" THEN "loop" ELSE "done"]
    /\ UNCHANGED <<now, file_binary, write_date, files, chainVars>>

\* line 256: image_file.save(filename) opens the file for writing
SaveOpen(r) ==
    /\ req[r].pc = "loop"
    /\ req[r].segs = <<>>
    /\ files' = Put(req[r].filename, Written(Truncated))
    /\ req' = [req EXCEPT ![r].pc = "write"]
    /\ UNCHANGED <<now, file_binary, write_date, chainVars>>

\* line 256: image_file.save(filename) writes the encoded image and closes
SaveWrite(r) ==
    /\ req[r].pc = "write"
    /\ files' = Put(req[r].filename, Written(Encoded(req[r].image, req[r].commands)))
    /\ req' = [req EXCEPT ![r].pc = "send", ![r].wrote = TRUE]
    /\ UNCHANGED <<now, file_binary, write_date, chainVars>>

\* lines 291-296: send_file(filename)
SendFile(r) ==
    /\ req[r].pc = "send"
    /\ req' = [req EXCEPT ![r].status = "200",
                          ![r].body = files[req[r].filename].content,
                          ![r].pc = "done"]
    /\ UNCHANGED <<now, file_binary, write_date, files, chainVars>>

\* the response has gone out; the worker takes its next request
Return(r) ==
    /\ req[r].pc = "done"
    /\ req' = [req EXCEPT ![r] = Idle]
    /\ UNCHANGED <<now, file_binary, write_date, files, chainVars>>

(***************************************************************************)
(* The environment: the master record is written, time passes              *)
(***************************************************************************)
\* the storage layer writes the record: new content, write_date set
MasterWrite ==
    /\ file_binary < MaxVersion
    /\ file_binary' = file_binary + 1
    /\ write_date' = now
    /\ UNCHANGED <<now, files, req, chainVars>>

Tick ==
    /\ now < MaxTime
    /\ now' = now + 1
    /\ UNCHANGED <<file_binary, write_date, files, req, chainVars>>

InitCache ==
    /\ now = 1
    /\ file_binary = 1
    /\ write_date = None
    /\ files = <<>>
    /\ req = [r \in Reqs |-> Idle]

InitChain ==
    /\ commands = <<>>
    /\ appended = <<>>
    /\ returned = "none"
    /\ InitCache

Init == InitChain

NextChain == thumbnail \/ resize \/ fit

SpecChain == InitChain /\ [][NextChain]_vars

Next ==
    \/ \E r \in Reqs : Request(r)
    \/ \E r \in Reqs : Gate(r)
    \/ \E r \in Reqs : ImageOpen(r)
    \/ \E r \in Reqs : Loop(r)
    \/ \E r \in Reqs : SaveOpen(r)
    \/ \E r \in Reqs : SaveWrite(r)
    \/ \E r \in Reqs : SendFile(r)
    \/ \E r \in Reqs : Return(r)
    \/ MasterWrite
    \/ Tick

Spec == Init /\ [][Next]_vars

\* one request at a time, with every command text
NextRender ==
    \/ RequestAny("r1")
    \/ Gate("r1")
    \/ ImageOpen("r1")
    \/ Loop("r1")
    \/ SaveOpen("r1")
    \/ SaveWrite("r1")
    \/ SendFile("r1")
    \/ Return("r1")

SpecRender == Init /\ [][NextRender]_vars

(***************************************************************************)
(* Properties of the rendition cache (specification Spec)                  *)
(***************************************************************************)
Miss(r) == req[r].file_date = None

Stale(r) == req[r].file_date # None /\ req[r].file_date < req[r].wdate

Gated(r) == req[r].gate # "none"

\* C1: on a master that has a write_date, a request renders and writes the
\* rendition if and only if it found no file at the cache path (Miss) or a
\* file older than the write_date (Stale); otherwise (Fresh) it neither
\* decodes nor writes and serves the file that is there.
C1_RenderIffMissOrStale ==
    \A r \in Reqs :
        (Gated(r) /\ req[r].wdate # None) =>
            /\ (req[r].gate = "render") <=> (Miss(r) \/ Stale(r))
            /\ (req[r].gate = "serve") =>
                   ~req[r].decoded /\ ~req[r].wrote /\ req[r].pc \in {"send", "done"}
            /\ (req[r].status = "200") => (req[r].wrote <=> (Miss(r) \/ Stale(r)))

\* a Stale request and a Miss request, both on a dated master, have rendered,
\* written and returned the file
C1_Witness ==
    \E r1, r2 \in Reqs :
        /\ req[r1].status = "200" /\ req[r1].wdate # None /\ Stale(r1) /\ req[r1].wrote
        /\ req[r2].status = "200" /\ req[r2].wdate # None /\ Miss(r2) /\ req[r2].wrote

FreshFile(f) == f \in DOMAIN files /\ files[f].mtime >= write_date

\* C2: a request that finds the cached file older than the master's
\* write_date renders; every write of a cache file leaves its modification
\* time >= the write_date; and while the master is not written again a file
\* with modification time >= write_date stays so, and a request that read
\* such a date is sent straight to send_file without rendering.
C2_StaleThenFresh ==
    [][ /\ \A r \in Reqs :
              (req[r].pc = "gate" /\ req'[r].pc # "gate" /\ req[r].file_date # None
                   /\ write_date # None) =>
                  IF req[r].file_date < write_date
                  THEN req'[r].gate = "render" /\ req'[r].pc = "open"
                  ELSE req'[r].gate = "serve" /\ req'[r].pc = "send"
        /\ \A f \in DOMAIN files' :
              (f \notin DOMAIN files \/ files'[f] # files[f]) =>
                  files'[f].mtime >= write_date'
        /\ \A f \in DOMAIN files :
              (FreshFile(f) /\ write_date' = write_date) => FreshFile(f)'
      ]_vars

\* one request found the file Stale and regenerated it; the other, arriving
\* after, found the regenerated file Fresh against the same write_date and
\* was served the rendition of the current master without rendering
C2_Witness ==
    \E r1, r2 \in Reqs :
        /\ req[r1].status = "200" /\ Stale(r1) /\ req[r1].wrote
        /\ req[r2].status = "200" /\ req[r2].gate = "serve"
        /\ req[r2].filename = req[r1].filename
        /\ req[r2].wdate = req[r1].wdate /\ req[r2].wdate = write_date
        /\ req[r2].file_date >= req[r1].wdate
        /\ req[r2].body.complete /\ req[r2].body.version = file_binary

\* C3: every request that returns a file returns a complete rendition, never
\* a file that a concurrent save has opened and not yet written.
C3_ServedComplete ==
    \A r \in Reqs : req[r].status = "200" => req[r].body.complete

\* C9 as claimed: with no write_date on the master, a request that finds a
\* cached file regenerates it.
C9_AbsentDateRegenerates ==
    \A r \in Reqs :
        (Gated(r) /\ req[r].wdate = None /\ ~Miss(r)) => req[r].gate = "render"

\* C9 as amended: with no write_date on the master, a request that finds a
\* cached file serves it without decoding or writing; only a Miss renders.
C9_AbsentDateServes ==
    \A r \in Reqs :
        (Gated(r) /\ req[r].wdate = None) =>
            /\ (req[r].gate = "render") <=> Miss(r)
            /\ ~Miss(r) => ~req[r].decoded /\ ~req[r].wrote

C9_Witness ==
    \E r \in Reqs :
        /\ req[r].status = "200" /\ req[r].wdate = None /\ ~Miss(r)
        /\ req[r].gate = "serve" /\ req[r].body.complete

\* C10: a request is only ever served a file rendered from its own command
\* text.
C10_ServedOwnChain ==
    \A r \in Reqs :
        (req[r].status = "200" /\ req[r].body.complete) =>
            req[r].body.commands = req[r].commands

(***************************************************************************)
(* Properties of rendering (specification SpecRender)                      *)
(***************************************************************************)
\* the operation name of a segment, as parse_command splits it off
OperationName(seg) == SplitMax(unquote(seg), ",", 1)[1]

HasUnknownOperation(c) ==
    \E i \in 1..Len(Split(c, "/")) :
        OperationName(Split(c, "/")[i]) \notin {thumbnailName, resizeName, fitName}

HasNoCommaSegment(c) ==
    \E i \in 1..Len(Split(c, "/")) :
        \A j \in 1..Len(Split(c, "/")[i]) : Split(c, "/")[i][j] # ","

Rendered(r) == req[r].pc = "done" /\ req[r].gate = "render"

\* C4: a transform of a chain with a segment whose operation name is not
\* thumbnail, resize or fit ends in the 404 error, and no method is invoked
\* under any other name.
C4_UnknownOperation404 ==
    \A r \in Reqs :
        (Rendered(r) /\ HasUnknownOperation(req[r].commands)) =>
            /\ req[r].status = "404"
            /\ req[r].invoked \subseteq {thumbnailName, resizeName, fitName}

\* C5: no request ends in an unhandled failure; invalid input ends in 404.
C5_NoUnhandledFailure ==
    \A r \in Reqs : req[r].status # "500"

\* C6: a rendering request whose command text is empty or has a segment
\* with no comma ends in the 404 error without the master having been
\* decoded.
C6_ParseBeforeDecode ==
    \A r \in Reqs :
        (Rendered(r) /\ HasNoCommaSegment(req[r].commands)) =>
            req[r].status = "404" /\ ~req[r].decoded

(***************************************************************************)
(* Properties of the command chain (specification SpecChain)               *)
(***************************************************************************)
ValidCodes == {<<"n">>, <<"b">>, <<"c">>, <<"a">>}

\* the filter code a builder call asked for
CodeOf(a) == IF a.mode = NotGiven THEN <<"n">> ELSE a.mode

AllCoded == \A i \in 1..Len(appended) : CodeOf(appended[i]) \in ValidCodes

\* segment i of the serialized chain parses to what call i appended
ParsesBack(segs, i) ==
    LET p == parse_command(segs[i])
    IN /\ p.status = "ok"
       /\ p.operation = appended[i].kind
       /\ DOMAIN p.params = {<<"w">>, <<"h">>, <<"m">>}
       /\ IsInt(p.params[<<"w">>]) /\ ToInt(p.params[<<"w">>]) = appended[i].width
       /\ IsInt(p.params[<<"h">>]) /\ ToInt(p.params[<<"h">>]) = appended[i].height
       /\ p.params[<<"m">>] = CodeOf(appended[i])

RoundTrip ==
    LET segs == Split(Str(commands), "/")
    IN /\ Len(segs) = Len(appended)
       /\ \A i \in 1..Len(appended) : ParsesBack(segs, i)

\* C7 as claimed: for every chain built by thumbnail/resize/fit calls with
\* valid filter codes, splitting the serialized text on '/' and parsing each
\* segment gives back, in number and order, what was appended.
C7_RoundTrip == AllCoded => RoundTrip

\* C7 as amended: the same, for every chain built by at least one call.
C7_RoundTripNonEmpty == (AllCoded /\ Len(appended) >= 1) => RoundTrip

C7_Witness ==
    /\ Len(appended) = 2
    /\ appended[1].kind = fitName /\ appended[1].mode = <<"c">>
    /\ appended[2].kind = thumbnailName /\ appended[2].mode = NotGiven
    /\ appended[2].width = 1 /\ appended[2].height = 100

RECURSIVE Concat(_)
\* the concatenation of a sequence of texts
Concat(ss) == IF ss = <<>> THEN <<>> ELSE Head(ss) \o Concat(Tail(ss))

\* "<kind>,w_<width>,h_<height>,m_<filter-code>"
ExpectedSegment(a) ==
    Concat(<<a.kind, <<",", "w", "_">>, ToStr(a.width), <<",", "h", "_">>,
             ToStr(a.height), <<",", "m", "_">>, CodeOf(a)>>)

RECURSIVE ExpectedText(_)
ExpectedText(as) ==
    IF as = <<>> THEN <<>>
    ELSE IF Len(as) = 1 THEN ExpectedSegment(as[1])
    ELSE ExpectedText(SubSeq(as, 1, Len(as) - 1)) \o <<"/">>
             \o ExpectedSegment(as[Len(as)])

\* thumbnail(128, 128) then resize(100, 100)
DoctestCalls ==
    <<[kind |-> thumbnailName, width |-> 128, height |-> 128, mode |-> NotGiven],
      [kind |-> resizeName, width |-> 100, height |-> 100, mode |-> NotGiven]>>

\* 'thumbnail,w_128,h_128,m_n/resize,w_100,h_100,m_n'
DoctestText ==
    <<"t", "h", "u", "m", "b", "n", "a", "i", "l", ",", "w", "_", "1", "2", "8",
      ",", "h", "_", "1", "2", "8", ",", "m", "_", "n", "/",
      "r", "e", "s", "i", "z", "e", ",", "w", "_", "1", "0", "0",
      ",", "h", "_", "1", "0", "0", ",", "m", "_", "n">>

====
